---- MODULE Spec2Model ----
(***************************************************************************)
(* A model of the deployment pipeline of the HugoHost repository:          *)
(*   - the blog document of the Firestore `blogs` collection and the       *)
(*     status writes of updateBlogStatus (src/lib/firebase/firestore.ts),  *)
(*   - the creation pipeline simulateBlogCreationProcess,                  *)
(*   - the hosting action deployToCloudflareAction                         *)
(*     (src/app/dashboard/blog/[blogId]/actions.ts) with the Cloudflare    *)
(*     adapter (lib/cloudflare),                                           *)
(*   - createGitHubRepo and commitFilesToRepo (src/lib/github.ts).         *)
(* Every await of the code is one step of the model.                       *)
(***************************************************************************)
EXTENDS Integers, Sequences, FiniteSets, TLC

(***************************************************************************)
(* Strings.  A string is a sequence of chunks [c, n]: the first n          *)
(* characters of the text c.  Concatenation is \o, the empty string is     *)
(* <<>> (falsy in the code's `a || b`).                                    *)
(***************************************************************************)
Lit(s, n) == IF n = 0 THEN <<>> ELSE <<[c |-> s, n |-> n]>>

RECURSIVE StrLen(_)
StrLen(s) == IF s = <<>> THEN 0 ELSE s[1].n + StrLen(Tail(s))

\* s.substring(0, k)
RECURSIVE Substring(_, _)
Substring(s, k) ==
  IF s = <<>> \/ k <= 0 THEN <<>>
  ELSE IF s[1].n <= k THEN <<s[1]>> \o Substring(Tail(s), k - s[1].n)
  ELSE <<[c |-> s[1].c, n |-> k]>>

\* an absent (undefined) value: of a string of the code, of an object, of an identifier
NoStr == <<[c |-> "undefined", n |-> 0]>>
None == [undefined |-> TRUE]
NONE == "undefined"

\* the truthiness of a string
Truthy(s) == s # NoStr /\ s # <<>>

\* a || b on strings
OrElse(a, b) == IF Truthy(a) THEN a ELSE b

(***************************************************************************)
(* The world: one blog document, its owner's credentials, the owner's      *)
(* GitHub account and Cloudflare account.                                  *)
(***************************************************************************)
Owner == "u1"
Stranger == "u2"
SiteName == "my-blog"
GitHubLogin == "octo"

\* the invocations that may be in flight
ProcIds == {1, 2}
\* the invocations the sequential specification uses
SeqProcs == {1}

VARIABLES
  blog,        \* the blog document, or NoDoc
  apiConn,     \* the owner's api_connections document, or NONE
  ghRepos,     \* the names of the repositories of the GitHub account
  ghCreated,   \* how many repositories GitHub has created on the account
  cfProjects,  \* the Pages projects of the Cloudflare account
  cfCreated,   \* how many projects Cloudflare has created on the account
  clean,       \* no step of any invocation has failed so far
  proc,        \* the invocations: simulateBlogCreationProcess / deployToCloudflareAction
  rcalls,      \* createGitHubRepo: the calls completed so far, with their outcomes
  rcall,       \* createGitHubRepo: the call in flight
  gitCommits,  \* the commit objects of the repository: sha -> [parents, tree, by]
  gitRef,      \* refs/heads/<branch>: a commit sha, or 0
  writer,      \* commitFilesToRepo: the calls in flight, one per writer
  returned,    \* commitFilesToRepo: the calls completed so far
  outages      \* how many requests the git API has failed for reasons of its own

orchVars == <<blog, apiConn, ghRepos, ghCreated, cfProjects, cfCreated, clean, proc>>
repoVars == <<rcalls, rcall>>
gitVars == <<gitCommits, gitRef, writer, returned, outages>>
vars == <<orchVars, repoVars, gitVars>>

NoDoc == [exists |-> FALSE]

(***************************************************************************)
(* The blog document (types.ts, Blog) and updateBlogStatus.                *)
(***************************************************************************)
BlogFields == {"userId", "siteName", "status", "githubRepoUrl", "liveUrl", "error",
               "deploymentNote", "cloudflarePagesProjectName", "cloudflareAccountId"}

\* the BlogStatus union of types.ts
BlogStatus == {"pending", "creating_repo", "preparing_site_structure", "generating_config",
               "configuring_theme", "pushing_content_to_repo", "ready_for_deployment",
               "cloudflare_deploy_pending", "deploying_to_cloudflare", "cloudflare_live",
               "cloudflare_deployment_failed", "failed"}

\* addBlog: the document as created
addBlog(userId) ==
  [f \in BlogFields |->
     CASE f = "userId" -> userId
       [] f = "siteName" -> SiteName
       [] f = "status" -> "pending"
       [] f = "cloudflareAccountId" -> NONE
       [] OTHER -> NoStr]

\* updateDoc(blogRef, { status, ...details }): the given fields replace the stored ones
updateBlogStatus(doc, status, details) ==
  [f \in DOMAIN doc \cup {"status"} \cup DOMAIN details |->
     IF f = "status" THEN status
     ELSE IF f \in DOMAIN details THEN details[f]
     ELSE doc[f]]

\* updateDoc can succeed only on an existing document
\* (a variant with the semantics of setDoc merge: a write to a missing document creates it)
StoreAcceptsAnyId == TRUE
StoreAccepts == blog # NoDoc

\* deleteBlog (firestore.ts 169-182): deleteDoc of the one document, nothing else
deleteBlog ==
  /\ blog # NoDoc
  /\ blog' = NoDoc
  /\ UNCHANGED <<apiConn, ghRepos, ghCreated, cfProjects, cfCreated, clean, proc,
                 rcalls, rcall, gitCommits, gitRef, writer, returned, outages>>

FailedToUpdateMsg == Lit("Failed to update blog status.", 29)

MaxErrorLen == 1000
RawSnippetLen == 200
Ellipsis == Lit("...", 3)

\* if (m.length > 1000) m = m.substring(0, 997) + "..."
Truncate(m) ==
  IF StrLen(m) > MaxErrorLen THEN Substring(m, MaxErrorLen - 3) \o Ellipsis ELSE m

(***************************************************************************)
(* The owner's credentials (types.ts, ApiConnection; getApiConnection).    *)
(* A field is TRUE when the secret is stored.                              *)
(***************************************************************************)
Conn(gh, token, key, email, account) ==
  [githubApiKey |-> gh, cloudflareApiToken |-> token, cloudflareApiKey |-> key,
   cloudflareEmail |-> email, cloudflareAccountId |-> account]

ApiConnections ==
  { Conn(TRUE, TRUE, FALSE, FALSE, TRUE),     \* GitHub token, Cloudflare API token
    Conn(TRUE, FALSE, TRUE, TRUE, TRUE),      \* legacy key + email
    Conn(FALSE, TRUE, FALSE, FALSE, TRUE),    \* no GitHub token
    Conn(TRUE, FALSE, TRUE, FALSE, TRUE),     \* key without email
    Conn(TRUE, TRUE, FALSE, FALSE, FALSE),    \* no account id
    None }                                    \* no api_connections document

\* the document getApiConnection(userId) reads
ApiConnectionOf(userId) ==
  IF userId = Owner THEN apiConn ELSE Conn(TRUE, TRUE, FALSE, FALSE, TRUE)

(***************************************************************************)
(* GitHub's answers to POST /user/repos, as the pipeline's fetch sees them. *)
(***************************************************************************)
NOJSON == [notJSON |-> TRUE]

\* html_url of the repository owner/name
RepoUrlOf(owner, name) ==
  Lit("https://", 8) \o Lit("github.com", 10) \o Lit("/", 1) \o Lit(owner, 4) \o Lit("/", 1) \o Lit(name, 7)
RepoUrl(name) == RepoUrlOf(GitHubLogin, name)

NameExistsMsg == Lit("name already exists on this account", 35)

Response(ok, status, raw, json) == [ok |-> ok, status |-> status, raw |-> raw, json |-> json]

Created201(name) ==
  Response(TRUE, Lit("201", 3), Lit("<body 201>", 900),
           [html_url |-> RepoUrl(name)])
\* the repository is created but the body cannot be read or parsed
CreatedUnparsed201 == Response(TRUE, Lit("201", 3), <<>>, NOJSON)
Exists422 ==
  Response(FALSE, Lit("422", 3), Lit("<body 422>", 160),
           [message |-> Lit("Repository creation failed.", 27),
            errors |-> <<[resource |-> "Repository", code |-> "custom",
                          field |-> Lit("name", 4), message |-> NameExistsMsg]>>])
Unauthorized401 ==
  Response(FALSE, Lit("401", 3), Lit("{\"message\": \"Bad credentials\"}", 30),
           [message |-> Lit("Bad credentials", 15), errors |-> <<>>])
Html500 == Response(FALSE, Lit("500", 3), Lit("<body 500>", 240), NOJSON)
Empty502 == Response(FALSE, Lit("502", 3), <<>>, NOJSON)
EmptyJson403 == Response(FALSE, Lit("403", 3), Lit("{}", 2), [message |-> NoStr, errors |-> <<>>])

\* the failures GitHub or the network can answer with whatever the account holds
ErrorResponses == {Unauthorized401, Html500, Empty502, EmptyJson403}

\* what fetch can reject with (error.message)
FetchErrors == {Lit("fetch failed", 12), <<>>}

(***************************************************************************)
(* simulateBlogCreationProcess: the error texts (firestore.ts 246-320).   *)
(***************************************************************************)
\* errorJson.errors.map(e => (e.field ? e.field + ": " : "") + (e.message || JSON.stringify(e))).join('; ')
RECURSIVE ValidationDetails(_)
ValidationDetails(errors) ==
  IF errors = <<>> THEN <<>>
  ELSE LET e == errors[1]
           msg == OrElse(e.message, Lit("<JSON of the error>", 60))
           one == IF Truthy(e.field) THEN e.field \o Lit(": ", 2) \o msg ELSE msg
       IN IF Len(errors) = 1 THEN one
          ELSE one \o Lit("; ", 2) \o ValidationDetails(Tail(errors))

RawSnippet(raw) ==
  Substring(raw, RawSnippetLen) \o (IF StrLen(raw) > RawSnippetLen THEN Ellipsis ELSE <<>>)

\* lines 265-304
ApiErrorMessage(resp) ==
  LET base == Lit("Failed to create GitHub repository (Status: ", 44) \o resp.status \o Lit(").", 2)
  IN IF resp.raw = <<>>
     THEN base \o Lit(" No additional error details from GitHub response.", 50)
     ELSE IF resp.json = NOJSON
     THEN base \o Lit(" Raw response: ", 15) \o RawSnippet(resp.raw)
     ELSE LET m0 == IF resp.json.message # NoStr THEN resp.json.message ELSE <<>>
              vd == ValidationDetails(resp.json.errors)
              m1 == IF resp.json.errors = <<>> THEN m0
                    ELSE IF m0 # <<>> THEN m0 \o Lit(" Details: ", 10) \o vd
                    ELSE Lit("Validation errors: ", 19) \o vd
          IN IF m1 # <<>> THEN m1
             ELSE IF resp.raw # Lit("{}", 2)
             THEN base \o Lit(" GitHub's raw response: ", 24) \o RawSnippet(resp.raw)
             ELSE base \o Lit(" GitHub returned an empty or non-standard error response.", 57)

\* lines 306-309
FirestoreErrorMessage(resp) == Truncate(Lit("GitHub API Error: ", 18) \o ApiErrorMessage(resp))

\* line 259
ParseErrorMessage(resp) ==
  Lit("Successfully created repo but failed to parse GitHub response. Status: ", 71) \o resp.status

\* (a variant without the prefix and the fallback text)
SimulationErrorMessageRaw(message) == Truncate(message)

\* lines 315-318
SimulationErrorMessage(message) ==
  Truncate(Lit("Simulation process failed: ", 27) \o OrElse(message, Lit("Unknown error", 13)))

SetupPendingUrl == Lit("Deployment setup pending...", 27)

(***************************************************************************)
(* The invocations.  An invocation keeps its arguments and locals, the     *)
(* log of its steps (store writes, reads and API requests, each with       *)
(* whether it succeeded), whether it threw to its caller and what it       *)
(* returned.                                                               *)
(***************************************************************************)
IdleProc ==
  [kind |-> "idle", pc |-> "idle", userId |-> NONE, conn |-> None, blogData |-> None,
   resp |-> None, msg |-> NoStr, log |-> <<>>, threw |-> FALSE, ret |-> None, from |-> NONE]

Step(op, what, ok) == [op |-> op, what |-> what, ok |-> ok]

\* no invocation is running
Quiet == \A q \in ProcIds : proc[q].pc \in {"idle", "done"}

\* p's step succeeds and p goes on at `pc`
Goes(p, pc, step) ==
  /\ proc' = [proc EXCEPT ![p].pc = pc, ![p].log = Append(@, step)]
  /\ clean' = clean

\* p's step fails: the error `msg` is thrown to the handler at `pc`
Fails(p, pc, msg, step) ==
  /\ proc' = [proc EXCEPT ![p].pc = pc, ![p].msg = msg, ![p].log = Append(@, step)]
  /\ clean' = FALSE

\* `await updateBlogStatus(blogId, w.status, w.details)` at p: the write is accepted
WriteOk(p, w, pc) ==
  /\ StoreAccepts
  /\ blog' = updateBlogStatus(blog, w.status, w.details)
  /\ Goes(p, pc, Step("write", w.status, TRUE))

\* ... or updateDoc rejects and updateBlogStatus throws (firestore.ts 162-165)
WriteFails(p, w, pc) ==
  /\ blog' = blog
  /\ Fails(p, pc, FailedToUpdateMsg, Step("write", w.status, FALSE))

StatusWrite(status, details) == [status |-> status, details |-> details]

(***************************************************************************)
(* createBlogAction (create/actions.ts 102-106): addBlog, then the          *)
(* pipeline is started and not awaited.                                    *)
(***************************************************************************)
StartPipeline(from) == [IdleProc EXCEPT !.kind = "pipeline", !.pc = "getDoc", !.from = from]

createBlogAction(p) ==
  /\ Quiet
  /\ blog = NoDoc
  /\ \A q \in ProcIds : proc[q].kind = "idle"    \* addDoc gives every blog a new id: this one is created once
  /\ blog' = addBlog(Owner)
  /\ proc' = [proc EXCEPT ![p] = StartPipeline("pending")]
  /\ UNCHANGED <<apiConn, ghRepos, ghCreated, cfProjects, cfCreated, clean, repoVars, gitVars>>

\* blog-card.tsx 79-90, 121, 192: the Retry GitHub button of a failed blog
handleRetryGitHubSetup(p) ==
  /\ Quiet
  /\ blog # NoDoc
  /\ blog.status = "failed"
  \* the records of the invocations that ended earlier are dropped
  /\ proc' = [q \in ProcIds |-> IF q = p THEN StartPipeline(blog.status) ELSE IdleProc]
  /\ UNCHANGED <<blog, apiConn, ghRepos, ghCreated, cfProjects, cfCreated, clean, repoVars, gitVars>>

(***************************************************************************)
(* simulateBlogCreationProcess (firestore.ts 184-325), one step per await. *)
(***************************************************************************)
\* the arguments of its updateBlogStatus calls: lines 220, 263, 259, 310, 320
\* (a variant that restarts from the initial status)
CreatingRepoWriteFromStart == StatusWrite("pending", <<>>)
CreatingRepoWrite == StatusWrite("creating_repo", <<>>)
RepoCreatedWrite(resp) ==
  StatusWrite("live", [githubRepoUrl |-> resp.json.html_url, liveUrl |-> SetupPendingUrl])
ParseFailedWrite(resp) == StatusWrite("failed", [error |-> ParseErrorMessage(resp)])
\* (a variant that reports the API failure under the success status)
ApiFailedWriteAsLive(resp) == StatusWrite("live", [error |-> FirestoreErrorMessage(resp)])
ApiFailedWrite(resp) == StatusWrite("failed", [error |-> FirestoreErrorMessage(resp)])
CaughtWrite(message) == StatusWrite("failed", [error |-> SimulationErrorMessage(message)])

\* 199-217: getDoc, the existence and userId checks
PipelineGetDoc(p) ==
  /\ proc[p].kind = "pipeline" /\ proc[p].pc = "getDoc"
  /\ \/ IF blog # NoDoc
        THEN /\ proc' = [proc EXCEPT ![p].pc = "wCreating", ![p].blogData = blog,
                           ![p].userId = blog.userId,
                           ![p].log = Append(@, Step("read", "blog", TRUE))]
             /\ clean' = clean
        ELSE Fails(p, "catch", Lit("Blog with ID b1 not found.", 26), Step("read", "blog", FALSE))
     \/ Fails(p, "catch", Lit("Missing or insufficient permissions.", 36), Step("read", "blog", FALSE))
  /\ UNCHANGED <<blog, apiConn, ghRepos, ghCreated, cfProjects, cfCreated, repoVars, gitVars>>

\* 220
PipelineWriteCreating(p) ==
  /\ proc[p].kind = "pipeline" /\ proc[p].pc = "wCreating"
  /\ \/ WriteOk(p, CreatingRepoWrite, "getConn")
     \/ WriteFails(p, CreatingRepoWrite, "catch")
  /\ UNCHANGED <<apiConn, ghRepos, ghCreated, cfProjects, cfCreated, repoVars, gitVars>>

\* 222-225
PipelineGetConn(p) ==
  /\ proc[p].kind = "pipeline" /\ proc[p].pc = "getConn"
  /\ LET c == ApiConnectionOf(proc[p].userId)
     IN \/ IF c # None /\ c.githubApiKey
           THEN /\ proc' = [proc EXCEPT ![p].pc = "fetch", ![p].conn = c,
                              ![p].log = Append(@, Step("read", "api_connections", TRUE))]
                /\ clean' = clean
           ELSE Fails(p, "catch", Lit("GitHub API key is missing. Please add your GitHub Personal Access Token in the API Connections settings.", 104),
                      Step("check", "githubApiKey", FALSE))
        \/ Fails(p, "catch", Lit("Failed to fetch API connection from Firestore.", 46),
                 Step("read", "api_connections", FALSE))
  /\ UNCHANGED <<blog, apiConn, ghRepos, ghCreated, cfProjects, cfCreated, repoVars, gitVars>>

\* 254-264: where the pipeline goes with GitHub's response
AfterFetch(resp) ==
  IF resp.ok THEN (IF resp.json = NOJSON THEN "wParseFail" ELSE "wLive") ELSE "wApiFail"

\* 232-251: POST /user/repos and the reading of the body
PipelineFetch(p) ==
  /\ proc[p].kind = "pipeline" /\ proc[p].pc = "fetch"
  /\ \/ /\ SiteName \notin ghRepos       \* GitHub creates the repository
        /\ ghRepos' = ghRepos \cup {SiteName}
        /\ ghCreated' = ghCreated + 1
        /\ \E r \in {Created201(SiteName), CreatedUnparsed201} :
             /\ proc' = [proc EXCEPT ![p].pc = AfterFetch(r), ![p].resp = r,
                           ![p].log = Append(@, Step("call", "github.createRepo", TRUE))]
             /\ clean' = (clean /\ r.json # NOJSON)
     \/ /\ \E r \in ErrorResponses \cup (IF SiteName \in ghRepos THEN {Exists422} ELSE {}) :
             proc' = [proc EXCEPT ![p].pc = AfterFetch(r), ![p].resp = r,
                        ![p].log = Append(@, Step("call", "github.createRepo", FALSE))]
        /\ clean' = FALSE
        /\ UNCHANGED <<ghRepos, ghCreated>>
     \/ /\ \E m \in FetchErrors : Fails(p, "catch", m, Step("call", "github.createRepo", FALSE))
        /\ UNCHANGED <<ghRepos, ghCreated>>
  /\ UNCHANGED <<blog, apiConn, cfProjects, cfCreated, repoVars, gitVars>>

\* 262-263
PipelineWriteLive(p) ==
  /\ proc[p].kind = "pipeline" /\ proc[p].pc = "wLive"
  /\ \/ WriteOk(p, RepoCreatedWrite(proc[p].resp), "done")
     \/ WriteFails(p, RepoCreatedWrite(proc[p].resp), "catch")
  /\ UNCHANGED <<apiConn, ghRepos, ghCreated, cfProjects, cfCreated, repoVars, gitVars>>

\* 258-260
PipelineWriteParseFail(p) ==
  /\ proc[p].kind = "pipeline" /\ proc[p].pc = "wParseFail"
  /\ \/ WriteOk(p, ParseFailedWrite(proc[p].resp), "done")
     \/ WriteFails(p, ParseFailedWrite(proc[p].resp), "catch")
  /\ UNCHANGED <<apiConn, ghRepos, ghCreated, cfProjects, cfCreated, repoVars, gitVars>>

\* 265-310
PipelineWriteApiFail(p) ==
  /\ proc[p].kind = "pipeline" /\ proc[p].pc = "wApiFail"
  /\ \/ WriteOk(p, ApiFailedWrite(proc[p].resp), "done")
     \/ WriteFails(p, ApiFailedWrite(proc[p].resp), "catch")
  /\ UNCHANGED <<apiConn, ghRepos, ghCreated, cfProjects, cfCreated, repoVars, gitVars>>

\* 313-324: the catch block; a failure of its own write is logged and dropped
PipelineCatch(p) ==
  /\ proc[p].kind = "pipeline" /\ proc[p].pc = "catch"
  /\ \/ WriteOk(p, CaughtWrite(proc[p].msg), "done")
     \/ /\ blog' = blog
        /\ proc' = [proc EXCEPT ![p].pc = "done", ![p].log = Append(@, Step("write", "failed", FALSE))]
        /\ clean' = FALSE
  /\ UNCHANGED <<apiConn, ghRepos, ghCreated, cfProjects, cfCreated, repoVars, gitVars>>

(***************************************************************************)
(* The Cloudflare adapter (lib/cloudflare): what the Pages API answers.    *)
(***************************************************************************)
CfError(code, message) == [code |-> code, message |-> message]

QuotaExceeded == <<CfError(Lit("8000", 4), Lit("quota exceeded", 14))>>
ProjectExists == <<CfError(Lit("8000002", 7), Lit("A project with this name already exists", 39))>>

\* errors.map(e => `(${e.code}) ${e.message}`).join(', ')
RECURSIVE JoinErrors(_)
JoinErrors(errors) ==
  IF errors = <<>> THEN <<>>
  ELSE LET one == Lit("(", 1) \o errors[1].code \o Lit(") ", 2) \o errors[1].message
       IN IF Len(errors) = 1 THEN one ELSE one \o Lit(", ", 2) \o JoinErrors(Tail(errors))

\* createCloudflarePagesProject 93-99: the error thrown for a response that is not a success
\* (a variant that reports the HTTP status only)
CreateProjectErrorOfStatus(errors, status) ==
  Lit("Failed to create Cloudflare Pages project: ", 43) \o Lit("Cloudflare API Error: Status ", 29) \o status
CreateProjectError(errors, status) ==
  Lit("Failed to create Cloudflare Pages project: ", 43)
    \o OrElse(JoinErrors(errors), Lit("Cloudflare API Error: Status ", 29) \o status)

JsonSyntaxError == Lit("Unexpected token < in JSON at position 0", 40)

InvalidBuildConfig ==
  <<CfError(Lit("8000011", 7), Lit("build_config.destination_dir is invalid", 39)),
    CfError(Lit("8000012", 7), Lit("source.config.repo_name was not found", 37))>>
\* an upstream message of any length: here one longer than the store's limit for an error
UpstreamTrace == <<CfError(Lit("10000", 5), Lit("<upstream trace>", 1200))>>

\* the structured failures the project creation can answer with
CreateFailures(name) ==
  {QuotaExceeded, InvalidBuildConfig, UpstreamTrace, <<>>}
    \cup (IF name \in cfProjects THEN {ProjectExists} ELSE {})

(***************************************************************************)
(* deployToCloudflareAction (blog/[blogId]/actions.ts 53-138).             *)
(***************************************************************************)
InitiatingNote == Lit("Initiating Cloudflare Pages deployment...", 41)
CreatingNote(name) == Lit("Creating/linking Cloudflare Pages project: ", 43) \o Lit(name, 7) \o Ellipsis
\* (a variant without the scheme)
PagesHost(name) == Lit(name, 7) \o Lit(".pages.dev", 10)
PagesUrl(name) == Lit("https://", 8) \o Lit(name, 7) \o Lit(".pages.dev", 10)
LiveNote(url) == Lit("Successfully deployed to Cloudflare Pages! Live at: ", 52) \o url

NoCredsError == Lit("Cloudflare API credentials or Account ID not found. Please configure them in API Connections.", 93)
NotFoundError == Lit("Blog not found or access denied.", 32)
NoRepoUrlError == Lit("GitHub repository URL is missing. Cannot deploy.", 48)
BadRepoUrlError == Lit("Invalid GitHub repository URL format.", 37)

\* line 135
DeploymentErrorMessage(message) == Lit("Cloudflare deployment failed: ", 30) \o message

\* line 62: the credentials the hosting step needs
\* (a variant that asks for the account id only)
HasCloudflareAccount(c) == c # None /\ c.cloudflareAccountId
HasCloudflareCredentials(c) ==
  /\ c # None
  /\ c.cloudflareAccountId
  /\ (c.cloudflareApiToken \/ (c.cloudflareApiKey /\ c.cloudflareEmail))

\* getBlog (firestore.ts 117-151): null for a missing document or another user's
getBlog(userId) == IF blog # NoDoc /\ blog.userId = userId THEN blog ELSE None

\* line 82: url.replace(/^https?:\/\//, '').split('/')
RECURSIVE SplitSlash(_)
SplitSlash(s) ==
  IF s = <<>> THEN <<>>
  ELSE IF s[1].c = "/" THEN SplitSlash(Tail(s))
  ELSE <<s[1].c>> \o SplitSlash(Tail(s))

GithubRepoParts(url) ==
  SplitSlash(IF url # <<>> /\ url[1].c \in {"https://", "http://"} THEN Tail(url) ELSE url)

\* lines 68-89: where the action goes once getBlog has answered
AfterGetBlog(b) ==
  IF b = None THEN "wNotFound"
  ELSE IF ~Truthy(b.githubRepoUrl) THEN "wNoRepoUrl"
  ELSE IF b.status = "cloudflare_live" /\ Truthy(b.liveUrl) THEN "alreadyLive"
  ELSE IF Len(GithubRepoParts(b.githubRepoUrl)) < 3 THEN "wBadUrl"
  ELSE "wDeploying"

Result(success, message, liveUrl) == [success |-> success, message |-> message, liveUrl |-> liveUrl]

Users == {Owner, Stranger, NONE}

\* the arguments of its updateBlogStatus calls: lines 58, 63/69/74/84, 94-98, 124-128, 135
DeployPendingWrite == StatusWrite("cloudflare_deploy_pending", [deploymentNote |-> InitiatingNote])
EarlyFailureWrite(e) == StatusWrite("cloudflare_deployment_failed", [error |-> e])
\* (a variant that does not record the account)
DeployingWriteOfName(name) ==
  StatusWrite("deploying_to_cloudflare",
              [deploymentNote |-> CreatingNote(name), cloudflarePagesProjectName |-> name])
\* (a variant that keeps the status of the previous step)
DeployingWriteUnannounced(name) ==
  StatusWrite("cloudflare_deploy_pending", [deploymentNote |-> CreatingNote(name)])
DeployingWrite(name) ==
  StatusWrite("deploying_to_cloudflare",
              [deploymentNote |-> CreatingNote(name), cloudflarePagesProjectName |-> name,
               cloudflareAccountId |-> "account-1"])
CloudflareLiveWrite(name) ==
  StatusWrite("cloudflare_live",
              [liveUrl |-> PagesUrl(name), deploymentNote |-> LiveNote(PagesUrl(name)),
               cloudflarePagesProjectName |-> name])
DeployFailedWrite(message) ==
  StatusWrite("cloudflare_deployment_failed", [error |-> DeploymentErrorMessage(message)])

\* a call of the server action; blog-card.tsx shows its button for some statuses only
deployToCloudflareAction(p, userId) ==
  /\ Quiet
  /\ blog # NoDoc
  /\ IF userId = NONE     \* line 54
     THEN proc' = [proc EXCEPT ![p] = [IdleProc EXCEPT !.kind = "hosting", !.pc = "done",
                      !.userId = userId, !.from = blog.status,
                      !.ret = Result(FALSE, Lit("User ID or Blog ID is missing.", 30), NoStr)]]
     ELSE proc' = [proc EXCEPT ![p] = [IdleProc EXCEPT !.kind = "hosting", !.pc = "hPending",
                      !.userId = userId, !.from = blog.status]]
  /\ UNCHANGED <<blog, apiConn, ghRepos, ghCreated, cfProjects, cfCreated, clean, repoVars, gitVars>>

\* line 58, outside the try block: a rejected write is thrown to the caller
HostingWritePending(p) ==
  /\ proc[p].kind = "hosting" /\ proc[p].pc = "hPending"
  /\ \/ WriteOk(p, DeployPendingWrite, "hGetConn")
     \/ /\ blog' = blog
        /\ proc' = [proc EXCEPT ![p].pc = "done", ![p].threw = TRUE, ![p].msg = FailedToUpdateMsg,
                      ![p].log = Append(@, Step("write", DeployPendingWrite.status, FALSE))]
        /\ clean' = FALSE
  /\ UNCHANGED <<apiConn, ghRepos, ghCreated, cfProjects, cfCreated, repoVars, gitVars>>

\* lines 61-62
HostingGetConn(p) ==
  /\ proc[p].kind = "hosting" /\ proc[p].pc = "hGetConn"
  /\ LET c == ApiConnectionOf(proc[p].userId)
     IN \/ IF HasCloudflareCredentials(c)
           THEN /\ proc' = [proc EXCEPT ![p].conn = c, ![p].pc = "hGetBlog",
                              ![p].log = Append(@, Step("read", "api_connections", TRUE))]
                /\ clean' = clean
           ELSE /\ proc' = [proc EXCEPT ![p].conn = c, ![p].pc = "wEarly", ![p].msg = NoCredsError,
                              ![p].log = Append(@, Step("check", "cloudflare credentials", FALSE))]
                /\ clean' = FALSE
        \/ Fails(p, "hCatch", Lit("Failed to fetch API connection from Firestore.", 46),
                 Step("read", "api_connections", FALSE))
  /\ UNCHANGED <<blog, apiConn, ghRepos, ghCreated, cfProjects, cfCreated, repoVars, gitVars>>

\* lines 67-89
HostingGetBlog(p) ==
  /\ proc[p].kind = "hosting" /\ proc[p].pc = "hGetBlog"
  /\ LET b == getBlog(proc[p].userId)
         next == AfterGetBlog(b)
     IN \/ CASE next = "alreadyLive" ->
                  /\ proc' = [proc EXCEPT ![p].blogData = b, ![p].pc = "done",
                                ![p].log = Append(@, Step("read", "blog", TRUE)),
                                ![p].ret = Result(TRUE, Lit("Blog is already live on Cloudflare: ", 36) \o b.liveUrl, b.liveUrl)]
                  /\ clean' = clean
             [] next = "wDeploying" ->
                  /\ proc' = [proc EXCEPT ![p].blogData = b, ![p].pc = next,
                                ![p].log = Append(@, Step("read", "blog", TRUE))]
                  /\ clean' = clean
             [] OTHER ->
                  /\ proc' = [proc EXCEPT ![p].blogData = b, ![p].pc = "wEarly",
                                ![p].msg = CASE next = "wNotFound" -> NotFoundError
                                             [] next = "wNoRepoUrl" -> NoRepoUrlError
                                             [] OTHER -> BadRepoUrlError,
                                ![p].log = Append(@, Step("check", next, FALSE))]
                  /\ clean' = FALSE
        \/ Fails(p, "hCatch", Lit("Failed to fetch blog details. Please try again.", 47),
                 Step("read", "blog", FALSE))
  /\ UNCHANGED <<blog, apiConn, ghRepos, ghCreated, cfProjects, cfCreated, repoVars, gitVars>>

\* lines 63-64, 69-70, 74-75, 84-85: the early failures
HostingWriteEarlyFailure(p) ==
  /\ proc[p].kind = "hosting" /\ proc[p].pc = "wEarly"
  /\ LET w == EarlyFailureWrite(proc[p].msg)
     IN \/ /\ StoreAccepts
           /\ blog' = updateBlogStatus(blog, w.status, w.details)
           /\ proc' = [proc EXCEPT ![p].pc = "done", ![p].log = Append(@, Step("write", w.status, TRUE)),
                         ![p].ret = Result(FALSE, proc[p].msg, NoStr)]
           /\ clean' = clean
        \/ WriteFails(p, w, "hCatch")
  /\ UNCHANGED <<apiConn, ghRepos, ghCreated, cfProjects, cfCreated, repoVars, gitVars>>

\* lines 92-98
HostingWriteDeploying(p) ==
  /\ proc[p].kind = "hosting" /\ proc[p].pc = "wDeploying"
  /\ LET w == DeployingWrite(proc[p].blogData.siteName)
     IN \/ WriteOk(p, w, "cfGet")
        \/ WriteFails(p, w, "hCatch")
  /\ UNCHANGED <<apiConn, ghRepos, ghCreated, cfProjects, cfCreated, repoVars, gitVars>>

\* getCloudflarePagesProject (cloudflare 117-135) when the API answers: the
\* project of that name, or null for a 404
\* (a variant whose lookup never finds the project)
ProjectNeverFound(name) == None
getCloudflarePagesProject(name) == IF name \in cfProjects THEN [name |-> name] ELSE None

\* line 101 and getCloudflarePagesProject (cloudflare 107-142): every failure but
\* missing credentials is caught there and answered with null
HostingGetProject(p) ==
  /\ proc[p].kind = "hosting" /\ proc[p].pc = "cfGet"
  /\ LET name == proc[p].blogData.siteName
     IN \/ /\ proc' = [proc EXCEPT ![p].log = Append(@, Step("call", "cloudflare.getProject", TRUE)),
                         ![p].resp = getCloudflarePagesProject(name),
                         ![p].pc = IF getCloudflarePagesProject(name) # None THEN "wCfLive" ELSE "cfCreate"]
           /\ clean' = clean
        \/ /\ proc' = [proc EXCEPT ![p].log = Append(@, Step("call", "cloudflare.getProject", FALSE)),
                         ![p].resp = None, ![p].pc = "cfCreate"]
           /\ clean' = FALSE
  /\ UNCHANGED <<blog, apiConn, ghRepos, ghCreated, cfProjects, cfCreated, repoVars, gitVars>>

\* lines 105-112 and createCloudflarePagesProject (cloudflare 29-104)
HostingCreateProject(p) ==
  /\ proc[p].kind = "hosting" /\ proc[p].pc = "cfCreate"
  /\ LET name == proc[p].blogData.siteName
     IN \/ /\ name \notin cfProjects
           /\ cfProjects' = cfProjects \cup {name}
           /\ cfCreated' = cfCreated + 1
           /\ proc' = [proc EXCEPT ![p].resp = [name |-> name], ![p].pc = "wCfLive",
                         ![p].log = Append(@, Step("call", "cloudflare.createProject", TRUE))]
           /\ clean' = clean
        \/ /\ \E errors \in CreateFailures(name) :
                /\ proc' = [proc EXCEPT ![p].pc = "hCatch", ![p].resp = [errors |-> errors],
                              ![p].msg = CreateProjectError(errors, Lit("500", 3)),
                              ![p].log = Append(@, Step("call", "cloudflare.createProject", FALSE))]
                /\ clean' = FALSE
           /\ UNCHANGED <<cfProjects, cfCreated>>
        \/ /\ \E m \in FetchErrors \cup {JsonSyntaxError} :
                Fails(p, "hCatch", m, Step("call", "cloudflare.createProject", FALSE))
           /\ UNCHANGED <<cfProjects, cfCreated>>
  /\ UNCHANGED <<blog, apiConn, ghRepos, ghCreated, repoVars, gitVars>>

\* lines 122-130
HostingWriteLive(p) ==
  /\ proc[p].kind = "hosting" /\ proc[p].pc = "wCfLive"
  /\ LET w == CloudflareLiveWrite(proc[p].resp.name)
     IN \/ /\ StoreAccepts
           /\ blog' = updateBlogStatus(blog, w.status, w.details)
           /\ proc' = [proc EXCEPT ![p].pc = "done", ![p].log = Append(@, Step("write", w.status, TRUE)),
                         ![p].ret = Result(TRUE, Lit("Blog deployed to Cloudflare Pages! Live at: ", 44) \o w.details.liveUrl,
                                           w.details.liveUrl)]
           /\ clean' = clean
        \/ WriteFails(p, w, "hCatch")
  /\ UNCHANGED <<apiConn, ghRepos, ghCreated, cfProjects, cfCreated, repoVars, gitVars>>

\* lines 132-137: the catch block; its own write is not guarded
HostingCatch(p) ==
  /\ proc[p].kind = "hosting" /\ proc[p].pc = "hCatch"
  /\ LET w == DeployFailedWrite(proc[p].msg)
     IN \/ /\ StoreAccepts
           /\ blog' = updateBlogStatus(blog, w.status, w.details)
           /\ proc' = [proc EXCEPT ![p].pc = "done", ![p].log = Append(@, Step("write", w.status, TRUE)),
                         ![p].ret = Result(FALSE, w.details.error, NoStr)]
           /\ clean' = clean
        \/ /\ blog' = blog
           /\ proc' = [proc EXCEPT ![p].pc = "done", ![p].threw = TRUE,
                         ![p].log = Append(@, Step("write", w.status, FALSE))]
           /\ clean' = FALSE
  /\ UNCHANGED <<apiConn, ghRepos, ghCreated, cfProjects, cfCreated, repoVars, gitVars>>

(***************************************************************************)
(* The orchestrator, one invocation at a time.                             *)
(***************************************************************************)

InitOrch ==
  /\ blog = NoDoc
  /\ apiConn \in ApiConnections
  /\ ghRepos \in {{}, {SiteName}}
  /\ ghCreated = 0
  /\ cfProjects = {}
  /\ cfCreated = 0
  /\ clean = TRUE
  /\ proc = [q \in ProcIds |-> IdleProc]

InitRepoIdle == rcalls = <<>> /\ rcall = None
InitGitIdle == gitCommits = <<>> /\ gitRef = 0 /\ writer = None /\ returned = <<>> /\ outages = 0

Init == InitOrch /\ InitRepoIdle /\ InitGitIdle

OrchStep(p) ==
  \/ createBlogAction(p)
  \/ handleRetryGitHubSetup(p)
  \/ PipelineGetDoc(p)
  \/ PipelineWriteCreating(p)
  \/ PipelineGetConn(p)
  \/ PipelineFetch(p)
  \/ PipelineWriteLive(p)
  \/ PipelineWriteParseFail(p)
  \/ PipelineWriteApiFail(p)
  \/ PipelineCatch(p)
  \/ \E u \in Users : deployToCloudflareAction(p, u)
  \/ HostingWritePending(p)
  \/ HostingGetConn(p)
  \/ HostingGetBlog(p)
  \/ HostingWriteEarlyFailure(p)
  \/ HostingWriteDeploying(p)
  \/ HostingGetProject(p)
  \/ HostingCreateProject(p)
  \/ HostingWriteLive(p)
  \/ HostingCatch(p)

Next == \E p \in SeqProcs : OrchStep(p)

Spec == Init /\ [][Next]_vars

\* blog-card.tsx 79-90, 193: the Retry button is disabled by the state of one card
\* only, so a second card (another window) showing the failed blog starts a
\* second run while the first is in flight
handleRetryGitHubSetupAgain(p) ==
  /\ proc[p].pc \in {"idle", "done"}
  /\ \E q \in ProcIds \ {p} : proc[q].kind = "pipeline" /\ proc[q].pc \notin {"idle", "done"}
  /\ blog # NoDoc
  /\ blog.status = "failed"
  /\ proc' = [proc EXCEPT ![p] = StartPipeline(blog.status)]
  /\ UNCHANGED <<blog, apiConn, ghRepos, ghCreated, cfProjects, cfCreated, clean, repoVars, gitVars>>

\* the creation pipeline with duplicate retries: two runs on the one record,
\* followed while no more than MaxRaceFaults steps of the runs in flight fail
MaxRaceFaults == 1
RaceFaults ==
  Cardinality({s \in UNION {{<<q, i>> : i \in DOMAIN proc[q].log} : q \in ProcIds} :
                 ~proc[s[1]].log[s[2]].ok})

RaceBound == RaceFaults' <= MaxRaceFaults

NextRace ==
  \E p \in ProcIds :
    \/ createBlogAction(p) /\ RaceBound
    \/ handleRetryGitHubSetup(p) /\ RaceBound
    \/ handleRetryGitHubSetupAgain(p) /\ RaceBound
    \/ PipelineGetDoc(p) /\ RaceBound
    \/ PipelineWriteCreating(p) /\ RaceBound
    \/ PipelineGetConn(p) /\ RaceBound
    \/ PipelineFetch(p) /\ RaceBound
    \/ PipelineWriteLive(p) /\ RaceBound
    \/ PipelineWriteParseFail(p) /\ RaceBound
    \/ PipelineWriteApiFail(p) /\ RaceBound
    \/ PipelineCatch(p) /\ RaceBound

\* the owner has stored a GitHub token
InitRace == Init /\ apiConn = Conn(TRUE, TRUE, FALSE, FALSE, TRUE)
SpecRace == InitRace /\ [][NextRace]_vars

\* the same, with the user free to delete the blog at any moment
NextDelete == Next \/ deleteBlog
SpecDelete == Init /\ [][NextDelete]_vars

(***************************************************************************)
(* What an invocation did, read from its log.                              *)
(***************************************************************************)
\* the statuses p persisted, in order
Writes(p) == SelectSeq(proc[p].log, LAMBDA s : s.op = "write" /\ s.ok)
LastWrite(p) == IF Writes(p) = <<>> THEN NONE ELSE Writes(p)[Len(Writes(p))].what
\* a store write of p was rejected
Rejected(p) == \E i \in DOMAIN proc[p].log : proc[p].log[i].op = "write" /\ ~proc[p].log[i].ok
\* the steps of p that failed
NumFaults(p) == Cardinality({i \in DOMAIN proc[p].log : ~proc[p].log[i].ok})
RepoCallFailed(p) == \E i \in DOMAIN proc[p].log : proc[p].log[i] = Step("call", "github.createRepo", FALSE)
ApiCalls(p) == SelectSeq(proc[p].log, LAMBDA s : s.op = "call")

FailedStatuses == {"failed", "cloudflare_deployment_failed"}
InProgressStatuses == BlogStatus \ (FailedStatuses \cup {"pending", "ready_for_deployment", "cloudflare_live"})

\* the linear states of the deployment, in their declared order (types.ts 8-17)
DeclaredOrder ==
  <<"pending", "creating_repo", "preparing_site_structure", "generating_config",
    "configuring_theme", "pushing_content_to_repo", "ready_for_deployment",
    "cloudflare_deploy_pending", "deploying_to_cloudflare", "cloudflare_live">>
Rank(s) ==
  IF \E i \in DOMAIN DeclaredOrder : DeclaredOrder[i] = s
  THEN CHOOSE i \in DOMAIN DeclaredOrder : DeclaredOrder[i] = s
  ELSE 0

\* the statuses after the repository stage; "live" is what line 263 writes there
PastRepository ==
  {"live", "ready_for_deployment", "cloudflare_deploy_pending", "deploying_to_cloudflare", "cloudflare_live"}

(***************************************************************************)
(* C1.  From pending, while every call and every store write succeeds,     *)
(* each persisted status is a declared linear state later in the declared  *)
(* order than the one it replaces, and an owner's hosting action that      *)
(* finishes leaves the record at cloudflare_live.                          *)
(***************************************************************************)
C1_HappyPathFollowsDeclaredOrder ==
  /\ [](\A p \in ProcIds :
          (clean /\ proc[p].kind = "hosting" /\ proc[p].pc = "done" /\ proc[p].userId = Owner)
            => blog.status = "cloudflare_live")
  /\ [][(clean' /\ blog # NoDoc /\ blog'.status # blog.status)
          => (Rank(blog.status) > 0 /\ Rank(blog'.status) > Rank(blog.status))]_vars

(***************************************************************************)
(* C2.  A pipeline run whose repository-creation call failed (a response   *)
(* that is not a success, or a thrown error) and whose store writes were   *)
(* accepted never persists a status past the repository stage, and once it *)
(* has finished its last persisted status is failed, with a non-empty      *)
(* error on the record.                                                    *)
(***************************************************************************)
C2_RepoFailureEndsFailed ==
  \A p \in ProcIds :
    (proc[p].kind = "pipeline" /\ RepoCallFailed(p) /\ ~Rejected(p)) =>
      /\ \A i \in DOMAIN Writes(p) : Writes(p)[i].what \notin PastRepository
      /\ proc[p].pc = "done" =>
           /\ LastWrite(p) = "failed"
           /\ blog.status = "failed"
           /\ Truthy(blog.error)

C2_Witness ==
  \E p \in ProcIds :
    /\ proc[p].kind = "pipeline" /\ proc[p].pc = "done"
    /\ RepoCallFailed(p) /\ ~Rejected(p)
    /\ proc[p].resp = Unauthorized401
    /\ blog.status = "failed"

(***************************************************************************)
(* C3.  A retry of a failed record whose repository already exists, with   *)
(* nothing else failing, creates no second repository and leaves the       *)
(* record past creating_repo with the existing repository's URL.           *)
(***************************************************************************)
C3_RetryAdoptsExistingRepo ==
  \A p \in ProcIds :
    (/\ proc[p].kind = "pipeline" /\ proc[p].pc = "done" /\ proc[p].from = "failed"
     /\ proc[p].resp = Exists422 /\ NumFaults(p) = 1) =>
      /\ ghCreated <= 1
      /\ blog.status \notin {"failed", "creating_repo"}
      /\ blog.githubRepoUrl = RepoUrl(SiteName)

(***************************************************************************)
(* C4.  The owner's hosting action on a record that is cloudflare_live     *)
(* with a liveUrl writes nothing, calls no hosting API, leaves the status  *)
(* at cloudflare_live and returns the existing liveUrl.                    *)
(***************************************************************************)
C4_AlreadyLiveIsNoOp ==
  \A p \in ProcIds :
    (proc[p].kind = "hosting" /\ proc[p].from = "cloudflare_live" /\ proc[p].userId = Owner) =>
      /\ \A i \in DOMAIN proc[p].log : proc[p].log[i].op \notin {"write", "call"}
      /\ blog.status = "cloudflare_live"
      /\ proc[p].pc = "done" =>
           (proc[p].ret # None /\ proc[p].ret.success /\ proc[p].ret.liveUrl = blog.liveUrl)

(***************************************************************************)
(* C5.  A record whose status is failed or cloudflare_deployment_failed    *)
(* has an error, and the error is not empty.                               *)
(***************************************************************************)
C5_FailedHasError ==
  (blog # NoDoc /\ blog.status \in FailedStatuses) => Truthy(blog.error)

\* a failure whose cause carried no message at all
C5_Witness ==
  /\ blog # NoDoc
  /\ blog.status = "failed"
  /\ blog.error = SimulationErrorMessage(<<>>)
  /\ \E p \in ProcIds : proc[p].pc = "done" /\ proc[p].msg = <<>>

(***************************************************************************)
(* C6.  The record has an error only while its status is a failed one:     *)
(* the first status write of a retry clears it and no successful           *)
(* transition leaves one behind.                                           *)
(***************************************************************************)
C6_ErrorOnlyWhileFailed ==
  (blog # NoDoc /\ Truthy(blog.error)) => blog.status \in FailedStatuses

(***************************************************************************)
(* C7.  A finished run in which a step failed (here: exactly one step, an  *)
(* API call, a read or a store write) threw nothing to its caller and left *)
(* the record in a failed status.                                          *)
(***************************************************************************)
C7_FailureIsPersistedNotThrown ==
  \A p \in ProcIds :
    (proc[p].pc = "done" /\ NumFaults(p) = 1) =>
      (~proc[p].threw /\ blog.status \in FailedStatuses)

(***************************************************************************)
(* createGitHubRepo (github.ts 307-382) against the GitHub account of the  *)
(* token.  Calls come one after another; MaxCalls of them are followed.    *)
(***************************************************************************)
MaxCalls == 2

OrgLogin == "acme"                    \* an organisation the user can name as owner
OrgRepos == {"my-site"}               \* its repositories
RepoNames == {SiteName, "my-site"}
RepoOwners == {GitHubLogin, OrgLogin}

NamePhrase == "name already exists on this account"

\* e.response.data of the 422 answers, and of answers that are not 422
NameExistsData == Exists422.json
NameExistsTopLevelData ==
  [message |-> <<[c |-> "Repository creation failed: ", n |-> 28], [c |-> NamePhrase, n |-> 35]>>,
   errors |-> <<>>]
NameExistsNoMessageData ==
  [message |-> Lit("Validation Failed", 17),
   errors |-> <<[resource |-> "Repository", code |-> "already_exists", field |-> Lit("name", 4),
                 message |-> NoStr]>>]
InvalidNameData ==
  [message |-> Lit("Repository creation failed.", 27),
   errors |-> <<[resource |-> "Repository", code |-> "custom", field |-> Lit("name", 4),
                 message |-> Lit("name is too long (maximum is 100 characters)", 44)]>>]

HttpError(status, message, data) == [status |-> status, message |-> message, data |-> data]

\* str.toLowerCase().includes("name already exists on this account")
IncludesNamePhrase(s) == s # NoStr /\ \E i \in DOMAIN s : s[i].c = NamePhrase

\* 327-341 (a variant that looks at the errors array only)
NameAlreadyExistsInErrorsOnly(data) ==
  \E i \in DOMAIN data.errors :
    /\ data.errors[i].resource = "Repository"
    /\ data.errors[i].field = Lit("name", 4)
    /\ IncludesNamePhrase(data.errors[i].message)

\* 327-341
NameAlreadyExists(data) ==
  \/ \E i \in DOMAIN data.errors :
       /\ data.errors[i].resource = "Repository"
       /\ data.errors[i].field = Lit("name", 4)
       /\ IncludesNamePhrase(data.errors[i].message)
  \/ IncludesNamePhrase(data.message)

\* 320-324, 350-354
RepoInfo(owner, name) ==
  [name |-> name, html_url |-> RepoUrlOf(owner, name), default_branch |-> "main"]

\* 357-358
WrappedLookupError(name, getRepoError, e) ==
  HttpError(IF getRepoError.status # 0 THEN getRepoError.status ELSE e.status,
            Lit("Repository ", 11) \o Lit(name, 7)
              \o Lit(" already exists, but failed to fetch its details: ", 50) \o getRepoError.message,
            IF getRepoError.data # None THEN getRepoError.data ELSE e.data)

\* 365-368 (a variant that drops what the API said)
ValidationErrorBare(e) == HttpError(422, Lit("GitHub API Error (422)", 22), e.data)

\* 365-368
ValidationError(e) ==
  HttpError(422,
            Lit("GitHub API Error (422): ", 24) \o OrElse(e.data.message, e.message) \o Lit(".", 1)
              \o (IF e.data.errors # <<>> THEN Lit(" Details: ", 10) \o Lit("<JSON of the errors>", 120) ELSE <<>>),
            e.data)

\* what GitHub can answer to the creation besides 201 and 'name already exists'
CreateRejections ==
  { HttpError(422, Lit("Validation Failed", 17), InvalidNameData),
    HttpError(401, Lit("Bad credentials", 15), [message |-> Lit("Bad credentials", 15), errors |-> <<>>]),
    HttpError(0, Lit("fetch failed", 12), None) }

\* ... and how it words 'name already exists'
NameExistsRejections ==
  { HttpError(422, Lit("Validation Failed", 17), d) :
      d \in {NameExistsData, NameExistsTopLevelData, NameExistsNoMessageData} }

LookupFailures(owner, name) ==
  { HttpError(0, Lit("fetch failed", 12), None) }
    \cup (IF owner = OrgLogin /\ name \notin OrgRepos
          THEN {HttpError(404, Lit("Not Found", 9), [message |-> Lit("Not Found", 9), errors |-> <<>>])}
          ELSE {})

\* the record kept of a finished call
Finished(c, info, error) ==
  [owner |-> c.owner, name |-> c.name, created |-> c.created, rejection |-> c.rejection,
   looked |-> c.looked, lookupError |-> c.lookupError, info |-> info, error |-> error]

createGitHubRepo(owner, name) ==
  /\ rcall = None
  /\ Len(rcalls) < MaxCalls
  /\ rcall' = [owner |-> owner, name |-> name, pc |-> "create", created |-> FALSE,
               rejection |-> None, looked |-> FALSE, lookupError |-> None]
  /\ UNCHANGED <<rcalls, orchVars, gitVars>>

\* 314-324 and the catch block as far as it needs no second request (325-343, 364-380)
RepoCreate ==
  /\ rcall # None /\ rcall.pc = "create"
  /\ \/ /\ rcall.name \notin ghRepos
        /\ ghRepos' = ghRepos \cup {rcall.name}
        /\ ghCreated' = ghCreated + 1
        /\ rcalls' = Append(rcalls, Finished([rcall EXCEPT !.created = TRUE],
                                             RepoInfo(GitHubLogin, rcall.name), None))
        /\ rcall' = None
     \/ /\ rcall.name \in ghRepos
        /\ \E e \in NameExistsRejections :
             IF NameAlreadyExists(e.data)
             THEN /\ rcall' = [rcall EXCEPT !.pc = "get", !.rejection = e]
                  /\ rcalls' = rcalls
             ELSE /\ rcalls' = Append(rcalls, Finished([rcall EXCEPT !.rejection = e], None, ValidationError(e)))
                  /\ rcall' = None
        /\ UNCHANGED <<ghRepos, ghCreated>>
     \/ /\ \E e \in CreateRejections :
             rcalls' = Append(rcalls, Finished([rcall EXCEPT !.rejection = e], None,
                                IF e.status = 422 THEN ValidationError(e) ELSE e))
        /\ rcall' = None
        /\ UNCHANGED <<ghRepos, ghCreated>>
  /\ UNCHANGED <<blog, apiConn, cfProjects, cfCreated, clean, proc, gitVars>>

\* 345-363: repos.get({owner, repo})
RepoGet ==
  /\ rcall # None /\ rcall.pc = "get"
  /\ LET c == [rcall EXCEPT !.looked = TRUE]
         found == IF rcall.owner = GitHubLogin THEN rcall.name \in ghRepos ELSE rcall.name \in OrgRepos
     IN \/ /\ found
           /\ rcalls' = Append(rcalls, Finished(c, RepoInfo(rcall.owner, rcall.name), None))
        \/ \E g \in LookupFailures(rcall.owner, rcall.name) :
             rcalls' = Append(rcalls, Finished([c EXCEPT !.lookupError = g], None,
                                               WrappedLookupError(rcall.name, g, rcall.rejection)))
  /\ rcall' = None
  /\ UNCHANGED <<orchVars, gitVars>>

InitRepo ==
  /\ blog = NoDoc
  /\ apiConn = None
  /\ ghRepos \in SUBSET RepoNames
  /\ ghCreated = 0
  /\ cfProjects = {}
  /\ cfCreated = 0
  /\ clean = TRUE
  /\ proc = [q \in ProcIds |-> IdleProc]
  /\ InitRepoIdle
  /\ InitGitIdle

NextRepo ==
  \/ \E owner \in RepoOwners, name \in RepoNames : createGitHubRepo(owner, name)
  \/ RepoCreate
  \/ RepoGet

SpecRepo == InitRepo /\ [][NextRepo]_vars

MaxCommitCalls == 2
MaxOutages == 1

WriterIds == {1, 2}
Paths == {"README.md", "config.toml"}
File(path, content) == [path |-> path, content |-> content]

\* createInitialCommitWithReadme 533-534
ReadmeFiles == <<File("README.md", "# title")>>

FileLists == { <<>>, <<File("README.md", "edited"), File("config.toml", "v1")>> }

\* a tree: what each path holds
EmptyTree == [p \in Paths |-> "absent"]

\* (a variant that builds the tree from the given entries alone)
createTreeOfFiles(files, base) ==
  [p \in Paths |->
     IF \E i \in DOMAIN files : files[i].path = p
     THEN files[CHOOSE i \in DOMAIN files : files[i].path = p].content
     ELSE "absent"]
\* git.createTree({tree: fileBlobs, base_tree}): the base with the given entries put in
createTree(files, base) ==
  [p \in Paths |->
     IF \E i \in DOMAIN files : files[i].path = p
     THEN files[CHOOSE i \in DOMAIN files :
                  files[i].path = p /\ \A k \in DOMAIN files : files[k].path = p => k <= i].content
     ELSE base[p]]

RECURSIVE IsAncestor(_, _)
\* commit a is commit b or one of its ancestors
IsAncestor(a, b) ==
  \/ a = b
  \/ b # 0 /\ \E i \in DOMAIN gitCommits[b].parents : IsAncestor(a, gitCommits[b].parents[i])

GitError(status, message, url) ==
  [status |-> status, message |-> message, data |-> [message |-> message, documentation_url |-> url]]

DocsUrl == Lit("https://docs.github.com/rest", 28)
BranchNotFound == GitError(404, Lit("Branch not found", 16), DocsUrl)
NotFound == GitError(404, Lit("Not Found", 9), DocsUrl)
ServerError == GitError(500, Lit("Server Error", 12), NoStr)
NotFastForward == GitError(422, Lit("Update is not a fast forward", 28), DocsUrl)
RefMissing == GitError(422, Lit("Reference does not exist", 24), DocsUrl)
RefExists == GitError(422, Lit("Reference already exists", 24), DocsUrl)
NetworkError == [status |-> 0, message |-> Lit("fetch failed", 12), data |-> None]

\* the ways a request can fail whatever the state of the repository
Outages == {ServerError, NotFound, NetworkError}

StatusText(n) ==
  CASE n = 404 -> Lit("404", 3) [] n = 422 -> Lit("422", 3) [] n = 500 -> Lit("500", 3) [] OTHER -> NoStr

\* 505-520: the error thrown for a failure that is not a 404
EnrichedError(e) ==
  [status |-> e.status,
   message |->
     IF e.status # 0
     THEN Lit("GitHub API Error (", 18) \o StatusText(e.status) \o Lit("): ", 3)
            \o OrElse(e.data.message, e.message) \o Lit(".", 1)
            \o (IF Truthy(e.data.documentation_url)
                THEN Lit(" Review: ", 9) \o e.data.documentation_url ELSE <<>>)
     ELSE Lit("Failed to commit files: ", 24) \o OrElse(e.message, Lit("Unknown error", 13)),
   data |-> e.data]

\* a commit the branch may hold before the first call: pushed by someone else
PushedEarlier == [parents |-> <<>>, tree |-> [EmptyTree EXCEPT !["README.md"] = "hello"], by |-> 0]

IdleWriter ==
  [pc |-> "idle", files |-> <<>>, route |-> "none", latest |-> 0, baseTree |-> EmptyTree,
   tree |-> EmptyTree, commit |-> 0, tipAtRef |-> 0, askedRef |-> FALSE, alone |-> TRUE,
   requests |-> 0]

\* 440 and 489: the parents of the new commit
CommitParents(w) == IF w.route = "update" THEN <<w.latest>> ELSE <<>>

\* 443-449 (a variant that forces the update)
UpdateRefForced(sha) == [sha |-> sha, force |-> TRUE]

\* 443-449: the reference update asked for
UpdateRefRequest(sha) == [sha |-> sha, force |-> FALSE]

\* GitHub's answer to a reference update
RefUpdateAnswer(req) ==
  IF gitRef = 0 THEN RefMissing
  ELSE IF req.force \/ IsAncestor(gitRef, req.sha) THEN None
  ELSE NotFastForward

\* 452, 501 (a variant that hands back the commit it started from)
CommitResultOfBase(w) == [commitSha |-> w.latest]

\* 452, 501: what a successful call returns
CommitResult(w) == [commitSha |-> w.commit]

\* the record kept of a finished call
FinishedCommit(id, w, result, error, tipAfter) ==
  [writer |-> id, files |-> w.files, route |-> w.route, latest |-> w.latest, commit |-> w.commit,
   parents |-> IF w.commit = 0 THEN <<>> ELSE gitCommits[w.commit].parents,
   usedBase |-> (w.commit # 0 /\ w.route = "update"),
   askedRef |-> w.askedRef, tipAtRef |-> w.tipAtRef, tipAfter |-> tipAfter,
   alone |-> w.alone, requests |-> w.requests,
   result |-> result, error |-> error]

\* the call returns or throws
Finish(id, w, result, error, tipAfter) ==
  /\ returned' = Append(returned, FinishedCommit(id, w, result, error, tipAfter))
  /\ writer' = [writer EXCEPT ![id] = IdleWriter]

\* 454-455, 502-521: an error e caught in the try block
Caught(id, w, e) ==
  IF e.status = 404
  THEN /\ writer' = [writer EXCEPT ![id] = [w EXCEPT !.pc = "blobs", !.route = "root"]]
       /\ returned' = returned
  ELSE Finish(id, w, None, EnrichedError(e), gitRef)

\* an error e of a request of the given route
Thrown(id, w, e) ==
  IF w.route = "root" THEN Finish(id, w, None, e, gitRef) ELSE Caught(id, w, e)

Busy(id) == writer[id].pc # "idle"

\* the request is answered, or fails for a reason of the API's own
Answered == outages' = outages
Outage == outages < MaxOutages /\ outages' = outages + 1

\* (a variant without the test)
NoFilesUnchecked(files) == FALSE
\* 393: !files || files.length === 0
NoFiles(files) == files = <<>>

\* 385-396: the call; an empty list returns null at once
commitFilesToRepo(id, files) ==
  /\ ~Busy(id)
  /\ Len(returned) + Cardinality({k \in WriterIds : Busy(k)}) < MaxCommitCalls
  /\ IF NoFiles(files)
     THEN Finish(id, [IdleWriter EXCEPT !.alone = \A k \in WriterIds : ~Busy(k)], None, None, gitRef)
     ELSE /\ writer' = [k \in WriterIds |->
                          IF k = id
                          THEN [IdleWriter EXCEPT !.pc = "getBranch", !.files = files,
                                                  !.alone = \A j \in WriterIds : ~Busy(j)]
                          ELSE [writer[k] EXCEPT !.alone = @ /\ ~Busy(k)]]
          /\ returned' = returned
  /\ UNCHANGED <<gitCommits, gitRef, outages, orchVars, repoVars>>

\* 526-541: its list holds the README, so the call never answers null (537-539)
createInitialCommitWithReadme(id) ==
  /\ ReadmeFiles # <<>>
  /\ commitFilesToRepo(id, ReadmeFiles)

\* 400-406
CommitGetBranch(id) ==
  /\ writer[id].pc = "getBranch"
  /\ LET w == [writer[id] EXCEPT !.requests = @ + 1]
     IN \/ /\ Answered
           /\ IF gitRef # 0
              THEN /\ writer' = [writer EXCEPT ![id] =
                                   [w EXCEPT !.pc = "blobs", !.route = "update", !.latest = gitRef,
                                             !.baseTree = gitCommits[gitRef].tree]]
                   /\ returned' = returned
              ELSE Caught(id, w, BranchNotFound)
        \/ /\ Outage
           /\ \E e \in Outages \ {NotFound} : Caught(id, w, e)
  /\ UNCHANGED <<gitCommits, gitRef, orchVars, repoVars>>

\* 411-426, 459-474
CommitCreateBlobs(id) ==
  /\ writer[id].pc = "blobs"
  /\ LET w == [writer[id] EXCEPT !.requests = @ + Len(writer[id].files)]
     IN \/ /\ Answered
           /\ writer' = [writer EXCEPT ![id] = [w EXCEPT !.pc = "tree"]]
           /\ returned' = returned
        \/ /\ Outage
           /\ \E e \in Outages : Thrown(id, w, e)
  /\ UNCHANGED <<gitCommits, gitRef, orchVars, repoVars>>

\* 428-433, 477-481
CommitCreateTree(id) ==
  /\ writer[id].pc = "tree"
  /\ LET w == [writer[id] EXCEPT !.requests = @ + 1]
         base == IF w.route = "update" THEN w.baseTree ELSE EmptyTree
     IN \/ /\ Answered
           /\ writer' = [writer EXCEPT ![id] = [w EXCEPT !.pc = "commit", !.tree = createTree(w.files, base)]]
           /\ returned' = returned
        \/ /\ Outage
           /\ \E e \in Outages : Thrown(id, w, e)
  /\ UNCHANGED <<gitCommits, gitRef, orchVars, repoVars>>

\* 435-441, 484-490
CommitCreateCommit(id) ==
  /\ writer[id].pc = "commit"
  /\ LET w == [writer[id] EXCEPT !.requests = @ + 1]
     IN \/ /\ Answered
           /\ gitCommits' = Append(gitCommits, [parents |-> CommitParents(w), tree |-> w.tree, by |-> id])
           /\ writer' = [writer EXCEPT ![id] = [w EXCEPT !.pc = "ref", !.commit = Len(gitCommits) + 1]]
           /\ returned' = returned
        \/ /\ Outage
           /\ \E e \in Outages : Thrown(id, w, e)
           /\ gitCommits' = gitCommits
  /\ UNCHANGED <<gitRef, orchVars, repoVars>>

\* 443-452: the reference update of a call that found the branch
CommitUpdateRef(id) ==
  /\ writer[id].pc = "ref" /\ writer[id].route = "update"
  /\ LET w == [writer[id] EXCEPT !.requests = @ + 1, !.askedRef = TRUE,
                                !.tipAtRef = IF writer[id].askedRef THEN @ ELSE gitRef]
         answer == RefUpdateAnswer(UpdateRefRequest(w.commit))
     IN \/ /\ Answered
           /\ IF answer = None
              THEN /\ gitRef' = w.commit
                   /\ Finish(id, w, CommitResult(w), None, w.commit)
              ELSE /\ gitRef' = gitRef
                   /\ Caught(id, w, answer)
        \/ /\ Outage
           /\ \E e \in Outages : Caught(id, w, e)
           /\ gitRef' = gitRef
  /\ UNCHANGED <<gitCommits, orchVars, repoVars>>

\* 493-501: the reference creation of a call that found no branch
CommitCreateRef(id) ==
  /\ writer[id].pc = "ref" /\ writer[id].route = "root"
  /\ LET w == [writer[id] EXCEPT !.requests = @ + 1, !.askedRef = TRUE,
                                !.tipAtRef = IF writer[id].askedRef THEN @ ELSE gitRef]
     IN \/ /\ Answered
           /\ IF gitRef = 0
              THEN /\ gitRef' = w.commit
                   /\ Finish(id, w, CommitResult(w), None, w.commit)
              ELSE /\ gitRef' = gitRef
                   /\ Finish(id, w, None, RefExists, gitRef)
        \/ /\ Outage
           /\ \E e \in Outages : Finish(id, w, None, e, gitRef)
           /\ gitRef' = gitRef
  /\ UNCHANGED <<gitCommits, orchVars, repoVars>>

InitCommit ==
  /\ blog = NoDoc
  /\ apiConn = None
  /\ ghRepos = {SiteName}
  /\ ghCreated = 0
  /\ cfProjects = {}
  /\ cfCreated = 0
  /\ clean = TRUE
  /\ proc = [q \in ProcIds |-> IdleProc]
  /\ InitRepoIdle
  /\ \/ gitCommits = <<>> /\ gitRef = 0
     \/ gitCommits = <<PushedEarlier>> /\ gitRef = 1
  /\ writer = [id \in WriterIds |-> IdleWriter]
  /\ returned = <<>>
  /\ outages = 0

NextCommit ==
  \E id \in WriterIds :
    \/ \E files \in FileLists : commitFilesToRepo(id, files)
    \/ createInitialCommitWithReadme(id)
    \/ CommitGetBranch(id)
    \/ CommitCreateBlobs(id)
    \/ CommitCreateTree(id)
    \/ CommitCreateCommit(id)
    \/ CommitUpdateRef(id)
    \/ CommitCreateRef(id)

SpecCommit == InitCommit /\ [][NextCommit]_vars

\* the finished calls that had files to commit
CommitCalls == SelectSeq(returned, LAMBDA r : r.files # <<>>)
\* the branch did not exist before the first call
BranchWasEmpty == gitCommits = <<>> \/ gitCommits[1].by # 0
\* every call so far ran with no other call in flight, and returned
AllAloneAndSuccessful == \A k \in DOMAIN returned : returned[k].alone /\ returned[k].error = None

(***************************************************************************)
(* C9.  On a branch that did not exist at first, as long as every call     *)
(* ran on its own and succeeded: the first call with files made a commit   *)
(* without parents from a tree without base and created the reference;     *)
(* every later one made a commit whose only parent is the commit the call  *)
(* before it returned; and each left the tip at the commit it returned.    *)
(***************************************************************************)
C9_SequentialCommitsChain ==
  (BranchWasEmpty /\ AllAloneAndSuccessful) =>
    \A k \in DOMAIN CommitCalls :
      LET r == CommitCalls[k]
      IN /\ r.result # None
         /\ r.tipAfter = r.result.commitSha
         /\ r.result.commitSha \in DOMAIN gitCommits
         /\ r.parents = gitCommits[r.result.commitSha].parents
         /\ IF k = 1
            THEN r.parents = <<>> /\ ~r.usedBase /\ r.route = "root" /\ r.tipAtRef = 0
            ELSE r.parents = <<CommitCalls[k - 1].result.commitSha>>

C9_Witness ==
  /\ BranchWasEmpty /\ AllAloneAndSuccessful
  /\ Len(CommitCalls) >= 2
  /\ CommitCalls[1].parents = <<>>
  /\ CommitCalls[2].parents = <<CommitCalls[1].result.commitSha>>
  /\ gitRef = CommitCalls[2].result.commitSha

(***************************************************************************)
(* C10.  A call that asked for its reference change when the tip was no    *)
(* longer the one it had resolved threw and returned nothing; when it      *)
(* ended the tip was the other writer's commit or a descendant of it, and  *)
(* the call's own commit was not on the branch.                            *)
(***************************************************************************)
C10_ConflictIsRejected ==
  \A k \in DOMAIN returned :
    (returned[k].askedRef /\ returned[k].tipAtRef # returned[k].latest) =>
      /\ returned[k].error # None
      /\ returned[k].result = None
      /\ IsAncestor(returned[k].tipAtRef, returned[k].tipAfter)
      /\ ~IsAncestor(returned[k].commit, returned[k].tipAfter)

\* two calls resolved the same tip; the second to update was told 'not a fast forward'
C10_Witness ==
  \E k \in DOMAIN returned :
    /\ returned[k].route = "update" /\ returned[k].askedRef
    /\ returned[k].latest # 0 /\ returned[k].tipAtRef # returned[k].latest
    /\ returned[k].error # None /\ returned[k].error.status = 422
    /\ gitRef = returned[k].tipAtRef
    /\ gitCommits[gitRef].parents = <<returned[k].latest>>

(***************************************************************************)
(* Claims about the hosting step.                                          *)
(***************************************************************************)
Logged(p, step) == \E i \in DOMAIN proc[p].log : proc[p].log[i] = step
CallsOf(p, what) == SelectSeq(proc[p].log, LAMBDA s : s.op = "call" /\ s.what = what)
WritesOf(p, status) == SelectSeq(proc[p].log, LAMBDA s : s.op = "write" /\ s.what = status)
LookupAnswered(p) == Logged(p, Step("call", "cloudflare.getProject", TRUE))

\* C11: over the sequential hosting runs of one account and project name the
\* project is created once: a run whose lookup is answered while the project
\* exists issues no creation call, so the creation call of the first run is
\* the only one.
C11_CreationCallIssuedOnce ==
  /\ [](cfCreated <= 1)
  /\ [][\A p \in ProcIds :
          (/\ proc[p].kind = "hosting"
           /\ SiteName \in cfProjects
           /\ LookupAnswered(p))
          => \A ok \in BOOLEAN :
               proc'[p].log # Append(proc[p].log, Step("call", "cloudflare.createProject", ok))]_vars

\* a second run has gone live on the project the first run created, by the lookup alone
C11_Witness ==
  \E p \in ProcIds :
    /\ proc[p].kind = "hosting" /\ proc[p].pc = "done"
    /\ proc[p].from = "cloudflare_deployment_failed"
    /\ cfCreated = 1
    /\ LookupAnswered(p)
    /\ CallsOf(p, "cloudflare.createProject") = <<>>
    /\ blog.status = "cloudflare_live"

\* the text m occurs in the text s
Contains(s, m) == \E k \in 0..(Len(s) - Len(m)) : SubSeq(s, k + 1, k + Len(m)) = m
\* the errors of the structured failure that p's creation call was answered with
ReturnedErrors(p) == IF "errors" \in DOMAIN proc[p].resp THEN proc[p].resp.errors ELSE <<>>

\* C12: a hosting run whose creation call is answered with a structured failure
\* (errors [{code, message}]) ends with the persisted status
\* cloudflare_deployment_failed and an error that contains the message of every
\* returned error, and that run has not written cloudflare_live.
C12_StructuredFailureIsPersisted ==
  \A p \in ProcIds :
    (/\ proc[p].kind = "hosting" /\ proc[p].pc = "done"
     /\ ReturnedErrors(p) # <<>>
     /\ ~Rejected(p))
    => /\ blog.status = "cloudflare_deployment_failed"
       /\ LastWrite(p) = "cloudflare_deployment_failed"
       /\ \A i \in DOMAIN ReturnedErrors(p) : Contains(blog.error, ReturnedErrors(p)[i].message)
       /\ WritesOf(p, "cloudflare_live") = <<>>

\* a creation call answered with two errors has ended the run
C12_Witness ==
  \E p \in ProcIds :
    /\ proc[p].kind = "hosting" /\ proc[p].pc = "done"
    /\ ReturnedErrors(p) = InvalidBuildConfig
    /\ ~Rejected(p)
    /\ blog.status = "cloudflare_deployment_failed"

\* C13: when a hosting run succeeds the persisted record has status
\* cloudflare_live, liveUrl "https://" + project name + ".pages.dev" where the
\* project name is the record's siteName, cloudflarePagesProjectName set to
\* that name, and githubRepoUrl still the URL the repository stage persisted.
C13_SuccessfulHostingRecord ==
  \A p \in ProcIds :
    (/\ proc[p].kind = "hosting" /\ proc[p].pc = "done"
     /\ LastWrite(p) = "cloudflare_live")
    => /\ blog.status = "cloudflare_live"
       /\ proc[p].resp.name = blog.siteName
       /\ blog.liveUrl = Lit("https://", 8) \o Lit(blog.siteName, 7) \o Lit(".pages.dev", 10)
       /\ blog.cloudflarePagesProjectName = blog.siteName
       /\ blog.githubRepoUrl = proc[p].blogData.githubRepoUrl
       /\ blog.githubRepoUrl = RepoUrlOf(GitHubLogin, SiteName)

\* a hosting run that had to create the project has succeeded
C13_Witness ==
  \E p \in ProcIds :
    /\ proc[p].kind = "hosting" /\ proc[p].pc = "done"
    /\ LastWrite(p) = "cloudflare_live"
    /\ Logged(p, Step("call", "cloudflare.createProject", TRUE))
    /\ proc[p].ret.success

\* C14: an invocation deployToCloudflareAction(userId, blogId) by a user who is
\* not the record's owner leaves the record unchanged (none of its store
\* writes is accepted) and issues no hosting API call.
C14_StrangerLeavesRecordUnchanged ==
  \A p \in ProcIds :
    (/\ proc[p].kind = "hosting"
     /\ proc[p].userId # NONE
     /\ blog # NoDoc
     /\ proc[p].userId # blog.userId)
    => /\ Writes(p) = <<>>
       /\ ApiCalls(p) = <<>>

\* C15: every error persisted on the record, by the repository stage and by
\* the hosting stage alike, has at most 1000 characters, whatever the length
\* of the upstream error message.
C15_PersistedErrorIsBounded ==
  blog # NoDoc => StrLen(blog.error) <= 1000

\* the stored credentials lack what the repository stage, the hosting stage needs
NoSourceControlToken(c) == c = None \/ ~c.githubApiKey
NoHostingCredential(c) ==
  \/ c = None
  \/ ~c.cloudflareAccountId
  \/ ~c.cloudflareApiToken /\ (~c.cloudflareApiKey \/ ~c.cloudflareEmail)

\* C16: a run of a stage whose credential is absent (no GitHub token for the
\* repository stage; no Cloudflare account id, or neither an API token nor a
\* key + email pair, for the hosting stage) issues no call to an external API
\* and ends with that stage's failed status and a non-empty error; the hosting
\* run never writes deploying_to_cloudflare.
C16_MissingCredentialFailsTheStage ==
  \A p \in ProcIds :
    /\ (proc[p].kind = "pipeline" /\ NoSourceControlToken(apiConn))
       => /\ ApiCalls(p) = <<>>
          /\ (proc[p].pc = "done" /\ ~Rejected(p))
             => blog.status = "failed" /\ Truthy(blog.error)
    /\ (proc[p].kind = "hosting" /\ proc[p].userId # NONE
        /\ NoHostingCredential(ApiConnectionOf(proc[p].userId)))
       => /\ ApiCalls(p) = <<>>
          /\ WritesOf(p, "deploying_to_cloudflare") = <<>>
          /\ (proc[p].pc = "done" /\ ~Rejected(p))
             => blog.status = "cloudflare_deployment_failed" /\ Truthy(blog.error)

\* a hosting run of an owner who stored a key without its email has ended
C16_Witness ==
  \E p \in ProcIds :
    /\ proc[p].kind = "hosting" /\ proc[p].pc = "done" /\ proc[p].userId = Owner
    /\ apiConn = Conn(TRUE, FALSE, TRUE, FALSE, TRUE)
    /\ Logged(p, Step("check", "cloudflare credentials", FALSE))
    /\ blog.status = "cloudflare_deployment_failed"

(***************************************************************************)
(* Claims about deletion.                                                  *)
(***************************************************************************)
\* the blog was created and has been deleted
Deleted == blog = NoDoc /\ \E q \in ProcIds : proc[q].kind # "idle"

\* C17: a record is created with status pending, and once deleteBlog has
\* removed it no write of a running pipeline or hosting run brings it back:
\* every updateBlogStatus issued for it afterwards fails and the record stays
\* absent, wherever the deletion falls between the steps of the run.
C17_DeletedStaysDeleted ==
  /\ [][(blog = NoDoc /\ blog' # NoDoc) => blog'.status = "pending" /\ ~Deleted]_vars
  /\ [][Deleted
        => /\ blog' = NoDoc
           /\ \A p \in ProcIds : \A status \in BlogStatus \cup {"live"} :
                proc'[p].log # Append(proc[p].log, Step("write", status, TRUE))]_vars

\* the blog was deleted under a running pipeline, whose later writes were both rejected
C17_Witness ==
  \E p \in ProcIds :
    /\ Deleted
    /\ proc[p].kind = "pipeline" /\ proc[p].pc = "done"
    /\ Logged(p, Step("write", "creating_repo", TRUE))
    /\ Logged(p, Step("write", "live", FALSE))
    /\ Logged(p, Step("write", "failed", FALSE))

(***************************************************************************)
(* Claims about the order of the steps of a run.                           *)
(***************************************************************************)
\* in p's run the step `before` was logged ahead of position i
Preceded(p, i, before) == \E j \in 1..(i - 1) : proc[p].log[j] = before

\* C18: within one run every external API call comes after the completed store
\* write that announces its stage: the repository-creation request after
\* creating_repo is persisted, the hosting lookup and creation requests after
\* deploying_to_cloudflare is persisted; a run is at one step at a time.
C18_CallsFollowTheirStageWrite ==
  \A p \in ProcIds : \A i \in DOMAIN proc[p].log :
    LET s == proc[p].log[i]
    IN s.op = "call"
       => /\ s.what = "github.createRepo"
             => Preceded(p, i, Step("write", "creating_repo", TRUE))
          /\ s.what \in {"cloudflare.getProject", "cloudflare.createProject"}
             => Preceded(p, i, Step("write", "deploying_to_cloudflare", TRUE))

\* a hosting run has issued both the lookup and the creation request
C18_Witness ==
  \E p \in ProcIds :
    /\ proc[p].kind = "hosting"
    /\ Len(CallsOf(p, "cloudflare.getProject")) = 1
    /\ Len(CallsOf(p, "cloudflare.createProject")) = 1

\* the store writes p attempted, accepted or not, in order
WriteAttempts(p) == SelectSeq(proc[p].log, LAMBDA s : s.op = "write")
HostingStatuses ==
  {"cloudflare_deploy_pending", "deploying_to_cloudflare", "cloudflare_live", "cloudflare_deployment_failed"}

\* C19: a retry re-enters at the failed stage's starting point. A pipeline run
\* started from status failed never writes pending, and creating_repo is its
\* first status write once it has read the document. A hosting run started
\* from cloudflare_deployment_failed makes cloudflare_deploy_pending its first
\* status write, issues no repository API call and writes no status of the
\* repository stage.
C19_RetryReentersAtFailedStage ==
  \A p \in ProcIds :
    /\ (proc[p].kind = "pipeline" /\ proc[p].from = "failed")
       => /\ WritesOf(p, "pending") = <<>>
          /\ (WriteAttempts(p) # <<>> /\ Logged(p, Step("read", "blog", TRUE)))
             => WriteAttempts(p)[1].what = "creating_repo"
    /\ (proc[p].kind = "hosting" /\ proc[p].from = "cloudflare_deployment_failed"
        /\ proc[p].userId # NONE)
       => /\ WriteAttempts(p) # <<>> => WriteAttempts(p)[1].what = "cloudflare_deploy_pending"
          /\ CallsOf(p, "github.createRepo") = <<>>
          /\ \A i \in DOMAIN WriteAttempts(p) : WriteAttempts(p)[i].what \in HostingStatuses

\* a retry of the repository stage has written creating_repo first and has ended
C19_Witness ==
  \E p \in ProcIds :
    /\ proc[p].kind = "pipeline" /\ proc[p].from = "failed" /\ proc[p].pc = "done"
    /\ Len(Writes(p)) = 2
    /\ Writes(p)[1].what = "creating_repo"

\* C20: the creation pipeline has no hosting side effects: it issues no call to
\* the hosting API, writes none of the hosting statuses and does not set
\* liveUrl, and when it succeeds the record rests at ready_for_deployment.
C20_PipelineHasNoHostingEffects ==
  \A p \in ProcIds :
    proc[p].kind = "pipeline"
    => /\ \A i \in DOMAIN ApiCalls(p) : ApiCalls(p)[i].what = "github.createRepo"
       /\ \A i \in DOMAIN WriteAttempts(p) : WriteAttempts(p)[i].what \notin HostingStatuses
       /\ blog # NoDoc => ~Truthy(blog.liveUrl)
       /\ (proc[p].pc = "done" /\ NumFaults(p) = 0) => blog.status = "ready_for_deployment"

(***************************************************************************)
(* Claims about commitFilesToRepo.                                         *)
(***************************************************************************)
\* the input list names the path
Names(files, path) == \E i \in DOMAIN files : files[i].path = path

\* C21: a call of commitFilesToRepo that found a tip on the branch and
\* returned a commit is additive: the only parent of the commit is that tip,
\* every path the input does not name holds in the commit's tree what it held
\* in the tip's tree, and every path the input names holds an input content.
C21_CommitIsAdditive ==
  \A k \in DOMAIN returned :
    LET r == returned[k]
    IN (r.result # None /\ r.latest # 0)
       => /\ r.result.commitSha \in DOMAIN gitCommits
          /\ gitCommits[r.result.commitSha].parents = <<r.latest>>
          /\ \A path \in Paths :
               LET new == gitCommits[r.result.commitSha].tree[path]
                   old == gitCommits[r.latest].tree[path]
               IN IF Names(r.files, path)
                  THEN \E i \in DOMAIN r.files : r.files[i].path = path /\ r.files[i].content = new
                  ELSE new = old

\* a commit of the README alone has kept the config.toml of the commit before it
C21_Witness ==
  \E k \in DOMAIN returned :
    /\ returned[k].result # None /\ returned[k].latest # 0
    /\ returned[k].files = ReadmeFiles
    /\ gitCommits[returned[k].latest].tree["config.toml"] = "v1"
    /\ gitCommits[returned[k].result.commitSha].tree["config.toml"] = "v1"
    /\ gitCommits[returned[k].result.commitSha].tree["README.md"] = "# title"

\* C22: commitFilesToRepo called with an empty file list is a no-op: it
\* returns null, throws nothing and has issued no API request, so it has
\* created no commit, and the step that answers it leaves the commits of the
\* repository and the branch reference as they were.
C22_EmptyListIsNoOp ==
  /\ [](/\ \A id \in WriterIds : Busy(id) => writer[id].files # <<>>
        /\ \A k \in DOMAIN returned :
             returned[k].files = <<>>
             => /\ returned[k].result = None /\ returned[k].error = None
                /\ returned[k].requests = 0 /\ returned[k].commit = 0)
  /\ [][(Len(returned') = Len(returned) + 1 /\ returned'[Len(returned')].files = <<>>)
        => gitRef' = gitRef /\ gitCommits' = gitCommits]_vars

\* a call with an empty list has returned while the branch had a tip
C22_Witness ==
  \E k \in DOMAIN returned :
    /\ returned[k].files = <<>> /\ returned[k].result = None
    /\ returned[k].tipAfter # 0 /\ gitRef = returned[k].tipAfter

\* C23: under any interleaving of concurrent calls on the branch, two callers
\* that both found it absent included, the reference only ever moves from
\* absent to a commit without parents or from tip T to a commit whose only
\* parent is T; so every commit that was the tip stays the tip or an ancestor
\* of it, and a root commit never replaces an existing branch.
C23_ReferenceOnlyFastForwards ==
  [][gitRef' # gitRef
     => /\ gitRef' \in DOMAIN gitCommits'
        /\ gitCommits'[gitRef'].parents = (IF gitRef = 0 THEN <<>> ELSE <<gitRef>>)]_vars

\* two callers found the branch absent; one created it, the other's createRef was refused
C23_Witness ==
  \E k \in DOMAIN returned :
    /\ returned[k].route = "root" /\ returned[k].latest = 0 /\ ~returned[k].alone
    /\ returned[k].error = RefExists
    /\ gitRef # 0 /\ gitRef # returned[k].commit
    /\ gitCommits[gitRef].parents = <<>> /\ gitCommits[gitRef].by # 0

(***************************************************************************)
(* Claims about two runs on one record.                                    *)
(***************************************************************************)
\* q's only failed step, if any, is the creation request refused because the
\* repository exists
OnlyLostTheRace(q) ==
  \/ NumFaults(q) = 0
  \/ /\ NumFaults(q) = 1
     /\ Logged(q, Step("call", "github.createRepo", FALSE))
     /\ proc[q].resp = Exists422

\* C24: when two pipeline runs act on the record at once (a duplicate retry)
\* and one of them creates the repository while nothing else fails, at most
\* one repository is created, the other run does not write failed because
\* the repository was created first, and once both have finished the record
\* has a status that is not failed and its githubRepoUrl set.
C24_DuplicateRetryIsSafe ==
  \A p, q \in ProcIds :
    (/\ p # q
     /\ proc[p].kind = "pipeline" /\ proc[q].kind = "pipeline"
     /\ proc[p].from = "failed" /\ proc[q].from = "failed"
     /\ Logged(p, Step("call", "github.createRepo", TRUE)) /\ NumFaults(p) = 0
     /\ OnlyLostTheRace(q))
    => /\ ghCreated <= 1
       /\ WritesOf(q, "failed") = <<>>
       /\ (proc[p].pc = "done" /\ proc[q].pc = "done")
          => /\ blog.status \notin FailedStatuses
             /\ Truthy(blog.githubRepoUrl)

\* C25: a call takes the root-commit path (tree without base, commit without
\* parents, createRef) only when getBranch reported the branch as not found:
\* a call that resolved a tip is never on that path, in flight or finished,
\* and when one of its later requests failed, with a 404 included, it threw
\* an error.
C25_RootPathOnlyForMissingBranch ==
  /\ \A id \in WriterIds : writer[id].route = "root" => writer[id].latest = 0
  /\ \A k \in DOMAIN returned :
       /\ returned[k].route = "root" => returned[k].latest = 0
       /\ (returned[k].latest # 0 /\ returned[k].result = None) => returned[k].error # None

(***************************************************************************)
(* Claims about createGitHubRepo.                                          *)
(***************************************************************************)
\* the creation was refused with 422 and the words 'name already exists on this account'
SaidNameExists(r) ==
  /\ r.rejection # None /\ r.rejection.status = 422
  /\ r.rejection.data \in {NameExistsData, NameExistsTopLevelData}

\* C26: createGitHubRepo returns repository info only when the creation
\* succeeded, or when it was refused with 422 'name already exists' and the
\* lookup that followed succeeded.  For every other refusal it raises without
\* a lookup, and it raises when the lookup fails.  A raised error carries the
\* HTTP status of the failed request (of the creation, when the lookup got no
\* answer) and the message of the API, with the validation details of a 422.
C26_RepoInfoOrError ==
  \A k \in DOMAIN rcalls :
    LET r == rcalls[k]
    IN /\ (r.info = None) # (r.error = None)
       /\ r.info # None => (r.created \/ (SaidNameExists(r) /\ r.looked /\ r.lookupError = None))
       /\ (r.rejection # None /\ ~SaidNameExists(r)) => (~r.looked /\ r.error # None)
       /\ r.lookupError # None => r.error # None
       /\ (r.error # None /\ r.rejection.status # 0)
          => IF r.lookupError # None
             THEN /\ r.error.status = (IF r.lookupError.status # 0 THEN r.lookupError.status ELSE 422)
                  /\ Contains(r.error.message, r.lookupError.message)
             ELSE /\ r.error.status = r.rejection.status
                  /\ Contains(r.error.message, r.rejection.data.message)
                  /\ (r.rejection.status = 422 /\ r.rejection.data.errors # <<>>)
                     => Contains(r.error.message, Lit("<JSON of the errors>", 120))

\* an invalid name has been refused with validation details, and a lookup has failed
C26_Witness ==
  \E i, j \in DOMAIN rcalls :
    /\ rcalls[i].rejection # None /\ rcalls[i].rejection.data = InvalidNameData
    /\ rcalls[i].error # None /\ ~rcalls[i].looked
    /\ rcalls[j].lookupError # None /\ rcalls[j].error # None

(***************************************************************************)
(* Further claims about the hosting step and the record.                   *)
(***************************************************************************)
\* C27: in a hosting run the creation call is issued only after a lookup that
\* was answered 'no such project'; a run whose lookup failed for another
\* reason (network error, 5xx, success=false) issues no creation call and,
\* its store writes accepted, ends with status cloudflare_deployment_failed.
C27_CreationOnlyAfterNotFound ==
  \A p \in ProcIds :
    proc[p].kind = "hosting"
    => /\ CallsOf(p, "cloudflare.createProject") # <<>> => LookupAnswered(p)
       /\ Logged(p, Step("call", "cloudflare.getProject", FALSE))
          => /\ CallsOf(p, "cloudflare.createProject") = <<>>
             /\ (proc[p].pc = "done" /\ ~Rejected(p)) => blog.status = "cloudflare_deployment_failed"

\* C28: the hosting stage is entered only from ready_for_deployment or
\* cloudflare_deployment_failed: a hosting action invoked on a record in any
\* other status writes nothing to it, and cloudflare_deployment_failed is
\* only ever written over cloudflare_deploy_pending or deploying_to_cloudflare.
C28_HostingEntryIsGuarded ==
  /\ [](\A p \in ProcIds :
          (proc[p].kind = "hosting"
           /\ proc[p].from \notin {"ready_for_deployment", "cloudflare_deployment_failed"})
          => Writes(p) = <<>> /\ (blog # NoDoc => blog.status = proc[p].from))
  /\ [][\A p \in ProcIds :
          proc'[p].log = Append(proc[p].log, Step("write", "cloudflare_deployment_failed", TRUE))
          => blog.status \in {"cloudflare_deploy_pending", "deploying_to_cloudflare"}]_vars

\* C29: every status persisted on the record, by any path, is a member of the
\* declared BlogStatus union.
C29_StatusIsDeclared ==
  blog # NoDoc => blog.status \in BlogStatus

\* C30: whenever the record's status is deploying_to_cloudflare or
\* cloudflare_live, its githubRepoUrl, cloudflarePagesProjectName and
\* cloudflareAccountId are set, and when it is cloudflare_live its liveUrl is
\* set too.
C30_HostingFieldsAreSet ==
  (blog # NoDoc /\ blog.status \in {"deploying_to_cloudflare", "cloudflare_live"})
  => /\ Truthy(blog.githubRepoUrl)
     /\ blog.cloudflarePagesProjectName = SiteName
     /\ blog.cloudflareAccountId # NONE
     /\ blog.status = "cloudflare_live" => Truthy(blog.liveUrl)

\* the record is at deploying_to_cloudflare, the lookup not yet issued
C30_Witness ==
  /\ blog # NoDoc /\ blog.status = "deploying_to_cloudflare"
  /\ \E p \in ProcIds : proc[p].kind = "hosting" /\ proc[p].pc = "cfGet"
  /\ blog.cloudflareAccountId # NONE

====
